---- MODULE Spec2Model ----
(***************************************************************************)
(* Model of Tree_gen.py: extract_class_info, scan_directory and            *)
(* generate_markdown.                                                      *)
(*                                                                         *)
(* A Python str is a sequence of characters; a character is a one-element  *)
(* TLA+ string; a character outside ASCII is written by its code point     *)
(* ("U+2514" is the box-drawing corner of the terminal connector), the     *)
(* newline as "LF" and the backtick as "BACKTICK".                         *)
(* The file system is the environment: what os.listdir, os.path.isdir,     *)
(* os.path.isfile and open/read answer is chosen when the program asks,    *)
(* and recorded in the history variable fs.                                *)
(***************************************************************************)
EXTENDS Integers, Sequences, FiniteSets, TLC

(***************************************************************************)
(* Bounds of the model.                                                    *)
(***************************************************************************)
\* entries (files, directories) the whole tree holds, over all listings
MaxNodes == 4
\* lines of a source file handed to the extractor
MaxLines == 2
\* words on one line of such a file
MaxWords == 3

(***************************************************************************)
(* Python str operations.                                                  *)
(***************************************************************************)
\* ord(c) of the characters that occur in entry names
Ord(c) ==
    CASE c = "." -> 46
      [] c = "A" -> 65
      [] c = "B" -> 66
      [] c = "a" -> 97
      [] c = "b" -> 98
      [] c = "c" -> 99
      [] c = "e" -> 101
      [] c = "g" -> 103
      [] c = "i" -> 105
      [] c = "m" -> 109
      [] c = "n" -> 110
      [] c = "s" -> 115
      [] c = "t" -> 116
      [] c = "x" -> 120

Min(a, b) == IF a < b THEN a ELSE b

\* s < t for two str: the first differing character decides, a proper
\* prefix is smaller
RECURSIVE StrLess(_, _)
StrLess(s, t) ==
    IF t = <<>> THEN FALSE
    ELSE IF s = <<>> THEN TRUE
    ELSE IF Ord(Head(s)) # Ord(Head(t)) THEN Ord(Head(s)) < Ord(Head(t))
    ELSE StrLess(Tail(s), Tail(t))

\* s.endswith(suffix)
EndsWith(s, suffix) ==
    /\ Len(suffix) <= Len(s)
    /\ SubSeq(s, Len(s) - Len(suffix) + 1, Len(s)) = suffix

\* sub in s
Contains(s, sub) ==
    \E k \in 0..(Len(s) - Len(sub)) : SubSeq(s, k + 1, k + Len(sub)) = sub

\* str(n) of a natural number, in decimal
Digit(d) == <<"0", "1", "2", "3", "4", "5", "6", "7", "8", "9">>[d + 1]

RECURSIVE Str(_)
Str(n) == IF n < 10 THEN <<Digit(n)>> ELSE Str(n \div 10) \o <<Digit(n % 10)>>

\* sorted(S) with the order reversed
RECURSIVE SortedDescending(_)
SortedDescending(S) ==
    IF S = {} THEN <<>>
    ELSE LET m == CHOOSE x \in S : \A y \in S \ {x} : StrLess(y, x)
         IN  <<m>> \o SortedDescending(S \ {m})

\* sorted(S) of a collection of distinct str: ascending
RECURSIVE Sorted(_)
Sorted(S) ==
    IF S = {} THEN <<>>
    ELSE LET m == CHOOSE x \in S : \A y \in S \ {x} : StrLess(x, y)
         IN  <<m>> \o Sorted(S \ {m})

(***************************************************************************)
(* Literals of the program.                                                *)
(***************************************************************************)
MetaSuffix == <<".", "m", "e", "t", "a">>
GitName    == <<".", "g", "i", "t">>
CsSuffix   == <<".", "c", "s">>
\* the connectors, each four characters
LastConnector == <<"U+2514", "U+2500", "U+2500", " ">>
MidConnector  == <<"U+251C", "U+2500", "U+2500", " ">>
\* the two continuation segments of a prefix
BlankSegment == <<" ", " ", " ", " ">>
BarSegment   == <<"U+2502", " ", " ", " ">>
Arrow        == <<" ", "U+2190", " ">>


(***************************************************************************)
(* extract_class_info.                                                     *)
(*                                                                         *)
(* A file is [readable, lines, summary_match, error]: lines is             *)
(* content.split('\n'), each line the sequence of its words (maximal runs  *)
(* of word characters, separated by whitespace); summary_match is group(1) *)
(* of the summary pattern's match on the content, or None; error is the    *)
(* text of the exception open/read raises when the file is not readable.   *)
(***************************************************************************)
None == <<"None">>

PublicWord == <<"p", "u", "b", "l", "i", "c">>
ClassWord  == <<"c", "l", "a", "s", "s">>
Foo        == <<"F", "o", "o">>
Bar        == <<"B", "a", "r">>
\* class|interface|enum|struct, of which the model's files use the first
Keywords   == {ClassWord,
               <<"i", "n", "t", "e", "r", "f", "a", "c", "e">>,
               <<"e", "n", "u", "m">>,
               <<"s", "t", "r", "u", "c", "t">>}

\* re.search(r'public\s+(class|interface|enum|struct)\s+(\w+)', line):
\* group(2) of the leftmost match, or None
PublicMatch(line) ==
    LET at == {k \in 1..(Len(line) - 2) :
                 line[k] = PublicWord /\ line[k + 1] \in Keywords}
    IN  IF at = {} THEN None
        ELSE line[(CHOOSE k \in at : \A j \in at : k <= j) + 2]

\* re.search(r'(class|interface|enum|struct)\s+(\w+)', line): group(2) of
\* the leftmost match, or None
BareMatch(line) ==
    LET at == {k \in 1..(Len(line) - 1) : line[k] \in Keywords}
    IN  IF at = {} THEN None
        ELSE line[(CHOOSE k \in at : \A j \in at : k <= j) + 1]

\* for line in lines: ... (lines 29-40), entered with class_name
RECURSIVE NameLoop(_, _)
NameLoop(lines, class_name) ==
    IF lines = <<>> THEN class_name
    ELSE IF PublicMatch(Head(lines)) # None THEN PublicMatch(Head(lines))
    ELSE IF class_name = <<>> /\ BareMatch(Head(lines)) # None
         THEN BareMatch(Head(lines))
    ELSE NameLoop(Tail(lines), class_name)

IsSpace(c) == c \in {" ", "LF"}

\* s.strip()
RECURSIVE LStrip(_)
LStrip(s) == IF s # <<>> /\ IsSpace(Head(s)) THEN LStrip(Tail(s)) ELSE s

RECURSIVE RStrip(_)
RStrip(s) ==
    IF s # <<>> /\ IsSpace(s[Len(s)]) THEN RStrip(SubSeq(s, 1, Len(s) - 1))
    ELSE s

Strip(s) == RStrip(LStrip(s))

\* re.sub(r'///\s*', '', s)
RECURSIVE DropLeaders(_)
DropLeaders(s) ==
    IF s = <<>> THEN <<>>
    ELSE IF Len(s) >= 3 /\ SubSeq(s, 1, 3) = <<"/", "/", "/">>
         THEN DropLeaders(LStrip(SubSeq(s, 4, Len(s))))
    ELSE <<Head(s)>> \o DropLeaders(Tail(s))

\* s.replace('\n', ' ')
NewlinesToSpaces(s) == [k \in 1..Len(s) |-> IF s[k] = "LF" THEN " " ELSE s[k]]

SummaryLimit == 100

\* lines 22-26
SummaryOf(summary_match) ==
    IF summary_match = None THEN <<>>
    ELSE LET t == NewlinesToSpaces(DropLeaders(Strip(summary_match)))
         IN  SubSeq(t, 1, Min(Len(t), SummaryLimit))

\* "(读取失败: " and ")" around str(e)
ReadFailed(error) ==
    <<"(", "U+8BFB", "U+53D6", "U+5931", "U+8D25", ":", " ">> \o error \o <<")">>

\* extract_class_info(filepath), file being what filepath holds: the pair
\* (class_name, summary)
extract_class_info(file) ==
    IF ~file.readable THEN <<<<>>, ReadFailed(file.error)>>
    ELSE <<NameLoop(file.lines, <<>>), SummaryOf(file.summary_match)>>

(***************************************************************************)
(* The file system the program reads.                                      *)
(*                                                                         *)
(* An entry of a directory is [name, kind]; kind is "dir" when             *)
(* os.path.isdir answers True for it and "file" when os.path.isfile does.  *)
(***************************************************************************)
Name(str, kind) == [name |-> str, kind |-> kind]

EntryUniverse ==
    { Name(GitName, "dir"),
      Name(<<"A", ".", "c", "s">>, "file"),
      Name(<<"A", ".", "c", "s">> \o MetaSuffix, "file"),
      Name(<<"B", ".", "c", "s">>, "file"),
      Name(<<"a">>, "dir"),
      Name(<<"b">>, "dir"),
      Name(<<"m">> \o MetaSuffix, "dir"),
      Name(<<"n", ".", "t", "x", "t">>, "file") }

\* what os.listdir may answer while the tree may still grow by budget entries
Listings(budget) == {S \in SUBSET EntryUniverse : Cardinality(S) <= budget}

ErrorText == <<"E", "r", "r", "n", "o">>
DocText   == <<"d", "o", "c">>

\* what a file of the tree may hold
FileContents ==
    { [readable |-> FALSE, lines |-> <<>>, summary_match |-> None,
       error |-> ErrorText],
      [readable |-> TRUE, lines |-> << <<Foo>> >>, summary_match |-> None,
       error |-> <<>>],
      [readable |-> TRUE, lines |-> << <<Foo>> >>, summary_match |-> DocText,
       error |-> <<>>],
      [readable |-> TRUE, lines |-> << <<PublicWord, ClassWord, Foo>> >>,
       summary_match |-> None, error |-> <<>>],
      [readable |-> TRUE, lines |-> << <<ClassWord, Bar>> >>,
       summary_match |-> DocText, error |-> <<>>] }

\* the files the extractor is run on by itself
Words == {PublicWord, ClassWord, Foo, Bar}
LinesOfWords == UNION {[1..n -> Words] : n \in 0..MaxWords}
ExtractFiles ==
    { [readable |-> TRUE, lines |-> ls, summary_match |-> m, error |-> <<>>] :
        ls \in UNION {[1..n -> LinesOfWords] : n \in 0..MaxLines},
        m \in {None, <<" ", "a", "LF", " ", "/", "/", "/", " ", "b">>} }
    \cup {[readable |-> FALSE, lines |-> <<>>, summary_match |-> None,
           error |-> ErrorText]}

(***************************************************************************)
(* State.                                                                  *)
(***************************************************************************)
VARIABLES
    pc,            \* where the run is: "main", "scan", "assemble", "done",
                   \* "crashed"; "extract", "extracted" for the extractor alone
    stack,         \* the active calls of scan_directory, the innermost last
    tree_lines,    \* the list scan_directory appends to
    output_lines,  \* generate_markdown's list
    document,      \* what was written to output_file, None before
    fs,            \* history: directory path -> what os.listdir answered
    visit,         \* history: for each line of tree_lines, what it is for
    nodes,         \* history: entries listed so far
    ex_file,       \* the extractor's input when it runs alone
    ex_result      \* and its result

vars == <<pc, stack, tree_lines, output_lines, document, fs, visit, nodes,
          ex_file, ex_result>>

Top == stack[Len(stack)]

(***************************************************************************)
(* scan_directory.                                                         *)
(***************************************************************************)
\* line 54 with the test for .git dropped
KeepItemMetaOnly(item) == ~EndsWith(item, MetaSuffix)

\* line 54: not item.endswith('.meta') and item != '.git'
KeepItem(item) == ~EndsWith(item, MetaSuffix) /\ item # GitName

\* lines 52-54: the names of a listing, sorted, then filtered
Items(listing) ==
    SelectSeq(Sorted({e.name : e \in listing}), KeepItem)

IsDir(listing, item)  == \E e \in listing : e.name = item /\ e.kind = "dir"
IsFile(listing, item) == \E e \in listing : e.name = item /\ e.kind = "file"

\* line 56
Dirs(listing) ==
    LET isdir(item) == IsDir(listing, item)
    IN  SelectSeq(Items(listing), isdir)

\* line 57 with the test for .cs dropped
FilesAnyExtension(listing) ==
    LET isfile(item) == IsFile(listing, item)
    IN  SelectSeq(Items(listing), isfile)

\* line 57
Files(listing) ==
    LET iscs(item) == IsFile(listing, item) /\ EndsWith(item, CsSuffix)
    IN  SelectSeq(Items(listing), iscs)

\* lines 61-62 with the test on dirs dropped
FileConnectorIgnoringDirs(i, files, dirs) ==
    IF i = Len(files) THEN LastConnector ELSE MidConnector

\* lines 61-62; i counts from 1 here, from 0 in the code
FileConnector(i, files, dirs) ==
    IF i = Len(files) /\ Len(dirs) = 0 THEN LastConnector ELSE MidConnector

\* line 78
IsLastDir(i, dirs) == i = Len(dirs)

\* line 79
DirConnector(i, dirs) ==
    IF IsLastDir(i, dirs) THEN LastConnector ELSE MidConnector

\* lines 67-72 with the summary shown whenever there is one
FileLineSummaryAlone(prefix, connector, filename, class_name, summary) ==
    IF class_name # <<>> /\ summary # <<>>
    THEN prefix \o connector \o filename \o Arrow \o class_name
           \o <<" ", "(">> \o summary \o <<")">>
    ELSE IF class_name # <<>>
    THEN prefix \o connector \o filename \o Arrow \o class_name
    ELSE IF summary # <<>>
    THEN prefix \o connector \o filename \o <<" ", "(">> \o summary \o <<")">>
    ELSE prefix \o connector \o filename

\* lines 67-72
FileLine(prefix, connector, filename, class_name, summary) ==
    IF class_name # <<>> /\ summary # <<>>
    THEN prefix \o connector \o filename \o Arrow \o class_name
           \o <<" ", "(">> \o summary \o <<")">>
    ELSE IF class_name # <<>>
    THEN prefix \o connector \o filename \o Arrow \o class_name
    ELSE prefix \o connector \o filename

\* line 81
DirLine(prefix, connector, dirname) == prefix \o connector \o dirname \o <<"/">>

\* line 84 with the marker whatever is_last_dir is
NewPrefixAlwaysBar(prefix, is_last_dir) == prefix \o BarSegment

\* line 84
NewPrefix(prefix, is_last_dir) ==
    prefix \o (IF is_last_dir THEN BlankSegment ELSE BarSegment)

ErrorOpen ==
    <<"[", "U+9519", "U+8BEF", ":", " ">>

\* line 91
ErrorLine(prefix, error) == prefix \o ErrorOpen \o error \o <<"]">>

\* a new call of scan_directory: line 46
Frame(root_path, prefix, is_last) ==
    [root_path |-> root_path, prefix |-> prefix, is_last |-> is_last,
     at |-> "listdir", dirs |-> <<>>, files |-> <<>>, i |-> 1]

\* an exception of os.listdir with no handler in scan_directory: it leaves
\* every active call
ListingErrorUncaught(frames, lines, error) ==
    [stack |-> <<>>, lines |-> lines, raised |-> TRUE]

\* lines 90-92 with a handler that appends nothing
ListingErrorSilent(frames, lines, error) ==
    [stack |-> SubSeq(frames, 1, Len(frames) - 1), lines |-> lines,
     raised |-> FALSE]

\* lines 90-92: the handler of the innermost call appends the error line
\* and the call returns
ListingError(frames, lines, error) ==
    [stack  |-> SubSeq(frames, 1, Len(frames) - 1),
     lines  |-> Append(lines, ErrorLine(frames[Len(frames)].prefix, error)),
     raised |-> FALSE]

\* where the run goes on once a call has returned or raised
After(frames, raised) ==
    IF raised THEN "crashed" ELSE IF frames = <<>> THEN "assemble" ELSE "scan"

\* what a line of tree_lines is for
Visit(kind, dir, name, file, info) ==
    [kind |-> kind, dir |-> dir, name |-> name, depth |-> Len(dir),
     readable |-> file.readable, class_name |-> info[1], summary |-> info[2]]

NoFile == [readable |-> TRUE]
NoInfo == <<<<>>, <<>>>>

\* line 52 succeeds; lines 52-57
ListDir ==
    /\ pc = "scan"
    /\ Top.at = "listdir"
    /\ \E listing \in Listings(MaxNodes - nodes) :
         /\ stack' = [stack EXCEPT ![Len(stack)] =
                        [@ EXCEPT !.dirs = Dirs(listing),
                                  !.files = Files(listing),
                                  !.at = IF Files(listing) # <<>>
                                         THEN "files" ELSE "dirs",
                                  !.i = 1]]
         /\ fs' = fs @@ (Top.root_path :> [ok |-> TRUE, entries |-> listing])
         /\ nodes' = nodes + Cardinality(listing)
    /\ UNCHANGED <<pc, tree_lines, output_lines, document, visit, ex_file,
                   ex_result>>

\* line 52 raises; lines 90-92
ListDirFails ==
    /\ pc = "scan"
    /\ Top.at = "listdir"
    /\ LET r == ListingError(stack, tree_lines, ErrorText)
       IN  /\ stack' = r.stack
           /\ tree_lines' = r.lines
           /\ pc' = After(r.stack, r.raised)
           /\ visit' = IF Len(r.lines) = Len(tree_lines) THEN visit
                       ELSE Append(visit, Visit("error", Top.root_path, <<>>,
                                                NoFile, NoInfo))
    /\ fs' = fs @@ (Top.root_path :> [ok |-> FALSE, entries |-> {}])
    /\ UNCHANGED <<output_lines, document, nodes, ex_file, ex_result>>

\* one turn of the loop of lines 60-74
FileStep ==
    /\ pc = "scan"
    /\ Top.at = "files"
    /\ \E file \in FileContents :
         LET filename  == Top.files[Top.i]
             connector == FileConnector(Top.i, Top.files, Top.dirs)
             info      == extract_class_info(file)
         IN  /\ tree_lines' =
                  Append(tree_lines,
                         FileLine(Top.prefix, connector, filename,
                                  info[1], info[2]))
             /\ visit' = Append(visit, Visit("file", Top.root_path, filename,
                                             file, info))
    /\ stack' = [stack EXCEPT ![Len(stack)] =
                   [@ EXCEPT !.i = IF @ = Len(Top.files) THEN 1 ELSE @ + 1,
                             !.at = IF Top.i = Len(Top.files)
                                    THEN "dirs" ELSE "files"]]
    /\ UNCHANGED <<pc, output_lines, document, fs, nodes, ex_file, ex_result>>

\* one turn of the loop of lines 77-86, up to the call of line 86
DirStep ==
    /\ pc = "scan"
    /\ Top.at = "dirs"
    /\ Top.i <= Len(Top.dirs)
    /\ LET dirname     == Top.dirs[Top.i]
           is_last_dir == IsLastDir(Top.i, Top.dirs)
           connector   == DirConnector(Top.i, Top.dirs)
       IN  /\ tree_lines' =
                Append(tree_lines, DirLine(Top.prefix, connector, dirname))
           /\ visit' = Append(visit, Visit("dir", Top.root_path, dirname,
                                           NoFile, NoInfo))
           /\ stack' =
                Append([stack EXCEPT ![Len(stack)] = [@ EXCEPT !.i = @ + 1]],
                       Frame(Append(Top.root_path, dirname),
                             NewPrefix(Top.prefix, is_last_dir), is_last_dir))
    /\ UNCHANGED <<pc, output_lines, document, fs, nodes, ex_file, ex_result>>

\* line 88
Return ==
    /\ pc = "scan"
    /\ Top.at = "dirs"
    /\ Top.i > Len(Top.dirs)
    /\ stack' = SubSeq(stack, 1, Len(stack) - 1)
    /\ pc' = After(stack', FALSE)
    /\ UNCHANGED <<tree_lines, output_lines, document, fs, visit, nodes,
                   ex_file, ex_result>>

(***************************************************************************)
(* generate_markdown.                                                      *)
(***************************************************************************)
TitleLine ==
    <<"#", " ", "F", "r", "a", "m", "e", "w", "o", "r", "k", "U+6846",
      "U+67B6", "U+7C7B", "U+6587", "U+4EF6", "U+6811", "U+72B6", "U+7ED3",
      "U+6784">>

QuoteLine ==
    <<">", " ", "U+81EA", "U+52A8", "U+751F", "U+6210", "U+7684", "U+7C7B",
      "U+6587", "U+4EF6", "U+4F4D", "U+7F6E", "U+4E0E", "U+529F", "U+80FD",
      "U+8BF4", "U+660E">>

FenceLine ==
    <<"BACKTICK", "BACKTICK", "BACKTICK">>

RootLine ==
    <<"A", "s", "s", "e", "t", "s", "/", "T", "r", "a", "d", "e", "G", "a",
      "m", "e", "/", "S", "c", "r", "i", "p", "t", "s", "/", "R", "u", "n",
      "t", "i", "m", "e", "/", "F", "r", "a", "m", "e", "w", "o", "r", "k",
      "/">>

TotalOpen ==
    <<"*", "*", "U+603B", "U+8BA1", "*", "*", ":", " ">>

TotalClose ==
    <<" ", "U+4E2A", " ", "C", "#", " ", "U+6587", "U+4EF6">>

\* lines 98-105
Header == <<TitleLine, <<>>, QuoteLine, <<>>, FenceLine, RootLine>>

\* len([l for l in tree_lines if '.cs' in l])
CsCount(lines) == Cardinality({k \in 1..Len(lines) : Contains(lines[k], CsSuffix)})

\* line 113
TotalLine(lines) == TotalOpen \o Str(CsCount(lines)) \o TotalClose

\* '\n'.join(lines)
RECURSIVE Join(_)
Join(lines) ==
    IF lines = <<>> THEN <<>>
    ELSE IF Len(lines) = 1 THEN lines[1]
    ELSE lines[1] \o <<"LF">> \o Join(Tail(lines))

\* lines 98-108, up to the call of scan_directory
GenerateMarkdown ==
    /\ pc = "main"
    /\ output_lines' = Header
    /\ tree_lines' = <<>>
    /\ stack' = <<Frame(<<>>, <<>>, TRUE)>>
    /\ pc' = "scan"
    /\ UNCHANGED <<document, fs, visit, nodes, ex_file, ex_result>>

\* lines 109-118
WriteDocument ==
    /\ pc = "assemble"
    /\ output_lines' = output_lines \o tree_lines
                         \o <<FenceLine, <<>>, TotalLine(tree_lines)>>
    /\ document' = Join(output_lines')
    /\ pc' = "done"
    /\ UNCHANGED <<stack, tree_lines, fs, visit, nodes, ex_file, ex_result>>

(***************************************************************************)
(* The run of the program.                                                 *)
(***************************************************************************)
Init ==
    /\ pc = "main"
    /\ stack = <<>>
    /\ tree_lines = <<>>
    /\ output_lines = <<>>
    /\ document = None
    /\ fs = <<>>
    /\ visit = <<>>
    /\ nodes = 0
    /\ ex_file = None
    /\ ex_result = None

Next ==
    \/ GenerateMarkdown
    \/ ListDir
    \/ ListDirFails
    \/ FileStep
    \/ DirStep
    \/ Return
    \/ WriteDocument

Spec == Init /\ [][Next]_vars

\* the interpreter runs the program on until it ends
FairSpec == Spec /\ WF_vars(Next)

(***************************************************************************)
(* extract_class_info run by itself on bounded files.                      *)
(***************************************************************************)
InitExtract ==
    /\ pc = "extract"
    /\ ex_file \in ExtractFiles
    /\ ex_result = None
    /\ stack = <<>>
    /\ tree_lines = <<>>
    /\ output_lines = <<>>
    /\ document = None
    /\ fs = <<>>
    /\ visit = <<>>
    /\ nodes = 0

Extract ==
    /\ pc = "extract"
    /\ ex_result' = extract_class_info(ex_file)
    /\ pc' = "extracted"
    /\ UNCHANGED <<stack, tree_lines, output_lines, document, fs, visit,
                   nodes, ex_file>>

NextExtract == Extract

SpecExtract == InitExtract /\ [][NextExtract]_vars

(***************************************************************************)
(* What the properties speak of.                                           *)
(***************************************************************************)
Front(path) == SubSeq(path, 1, Len(path) - 1)
Last(path)  == path[Len(path)]

LineIndexes == 1..Len(tree_lines)

\* the three parts of line k: d four-character segments, the connector,
\* and the rest
LinePrefix(k) == SubSeq(tree_lines[k], 1, Len(BarSegment) * visit[k].depth)
LineConnector(k) ==
    SubSeq(tree_lines[k], Len(LinePrefix(k)) + 1,
           Len(LinePrefix(k)) + Len(MidConnector))
LineRest(k) ==
    SubSeq(tree_lines[k], Len(LinePrefix(k)) + Len(MidConnector) + 1,
           Len(tree_lines[k]))

\* line k is the entry line of the entry visit[k] names
IsEntryLine(k) ==
    /\ visit[k].kind \in {"file", "dir"}
    /\ LineConnector(k) \in {LastConnector, MidConnector}
    /\ SubSeq(LineRest(k), 1, Len(visit[k].name)) = visit[k].name
    /\ visit[k].kind = "dir" => LineRest(k) = visit[k].name \o <<"/">>

Excluded(name) == EndsWith(name, MetaSuffix) \/ name = GitName

\* the files and the subdirectories of a listed directory that are to be
\* rendered: not excluded, and for a file of the recognized extension
FilesToRender(p) ==
    {e.name : e \in {x \in fs[p].entries :
                       x.kind = "file" /\ EndsWith(x.name, CsSuffix)
                         /\ ~Excluded(x.name)}}
DirsToRender(p) ==
    {e.name : e \in {x \in fs[p].entries :
                       x.kind = "dir" /\ ~Excluded(x.name)}}

\* name is the last of names in ascending order
IsLastOf(name, names) == \A other \in names \ {name} : StrLess(other, name)

Listed    == {p \in DOMAIN fs : fs[p].ok}
Unlisted  == {p \in DOMAIN fs : ~fs[p].ok}
ScanOver  == pc \in {"assemble", "done"}

\* C1: at every level, a file line has the terminal connector exactly when
\* the file is the last of the level's rendered files and the level has no
\* rendered subdirectory; a subdirectory line has it exactly when the
\* subdirectory is the last of the level's rendered subdirectories; every
\* other entry line has the mid connector.
C1_Connectors ==
    \A k \in LineIndexes :
      /\ visit[k].kind = "file" =>
           /\ IsEntryLine(k)
           /\ LineConnector(k) = LastConnector
                <=> /\ IsLastOf(visit[k].name, FilesToRender(visit[k].dir))
                    /\ DirsToRender(visit[k].dir) = {}
      /\ visit[k].kind = "dir" =>
           /\ IsEntryLine(k)
           /\ LineConnector(k) = LastConnector
                <=> IsLastOf(visit[k].name, DirsToRender(visit[k].dir))

\* a level of two files beside a subdirectory and a level of files alone,
\* both rendered
C1_Witness ==
    /\ ScanOver
    /\ \E p \in Listed :
         Cardinality(FilesToRender(p)) >= 2 /\ DirsToRender(p) # {}
    /\ \E q \in Listed : FilesToRender(q) # {} /\ DirsToRender(q) = {}

\* C2: at every level the file lines come before the subdirectory lines,
\* the file lines in ascending name order and the subdirectory lines in
\* ascending name order.
C2_Order ==
    \A k, l \in LineIndexes :
      (/\ k < l
       /\ visit[k].dir = visit[l].dir
       /\ visit[k].kind \in {"file", "dir"}
       /\ visit[l].kind \in {"file", "dir"})
      => /\ IsEntryLine(k) /\ IsEntryLine(l)
         /\ ~(visit[k].kind = "dir" /\ visit[l].kind = "file")
         /\ visit[k].kind = visit[l].kind
              => StrLess(visit[k].name, visit[l].name)

\* a level of two files and two subdirectories, rendered
C2_Witness ==
    /\ ScanOver
    /\ \E p \in Listed :
         /\ Cardinality(FilesToRender(p)) >= 2
         /\ Cardinality(DirsToRender(p)) >= 2

\* C3: no line is the entry line of an item named *.meta or .git, no file
\* without the .cs extension has an entry line, and no call of
\* scan_directory is made on a path with such an item in it.
C3_Exclusion ==
    /\ \A k \in LineIndexes :
         visit[k].kind \in {"file", "dir"} =>
           /\ IsEntryLine(k)
           /\ ~EndsWith(visit[k].name, MetaSuffix)
           /\ visit[k].name # GitName
           /\ visit[k].kind = "file" => EndsWith(visit[k].name, CsSuffix)
    /\ \A j \in 1..Len(stack) : \A n \in 1..Len(stack[j].root_path) :
         ~Excluded(stack[j].root_path[n])
    /\ \A p \in DOMAIN fs : \A n \in 1..Len(p) : ~Excluded(p[n])

\* a listed directory held a .git directory, a *.meta directory and a file
\* of another extension beside a rendered file
C3_Witness ==
    /\ ScanOver
    /\ \E p \in Listed :
         /\ \E e \in fs[p].entries : e.name = GitName /\ e.kind = "dir"
         /\ \E e \in fs[p].entries :
              EndsWith(e.name, MetaSuffix) /\ e.kind = "dir"
         /\ \E e \in fs[p].entries :
              e.kind = "file" /\ ~EndsWith(e.name, CsSuffix)
         /\ FilesToRender(p) # {}

\* path p is path q or lies beneath it
Beneath(p, q) == Len(q) <= Len(p) /\ SubSeq(p, 1, Len(q)) = q

ErrorLinesOf(D) ==
    {k \in LineIndexes : visit[k].kind = "error" /\ visit[k].dir = D}

IsDirLineOf(k, D) ==
    /\ visit[k].kind = "dir"
    /\ Append(visit[k].dir, visit[k].name) = D
    /\ IsEntryLine(k)

\* the lines of a subdirectory D whose listing failed
FailedListingLines(D) ==
    /\ Cardinality(ErrorLinesOf(D)) = 1
    /\ \A k \in ErrorLinesOf(D) :
         /\ tree_lines[k] = LinePrefix(k) \o ErrorOpen \o ErrorText \o <<"]">>
         /\ D # <<>> => k > 1 /\ IsDirLineOf(k - 1, D)
         /\ \A l \in LineIndexes \ {k} : ~Beneath(visit[l].dir, D)
         /\ (ScanOver /\ D # <<>>) =>
              \A S \in DirsToRender(Front(D)) :
                StrLess(Last(D), S) =>
                  /\ \E l \in LineIndexes :
                       l > k /\ IsDirLineOf(l, Append(Front(D), S))
                  /\ Append(Front(D), S) \in DOMAIN fs

\* the step in which a listing fails appends one line and keeps the others
FailureKeepsLines ==
    (\E D \in DOMAIN fs' : D \notin DOMAIN fs /\ ~fs'[D].ok)
      => /\ Len(tree_lines') = Len(tree_lines) + 1
         /\ SubSeq(tree_lines', 1, Len(tree_lines)) = tree_lines

\* C4: a directory whose listing fails gets exactly one bracketed error
\* line, right after its own directory line, and no other line for anything
\* beneath it; every sibling subdirectory after it is still rendered and
\* scanned; the lines appended before the failure stay as they were.
C4_ListingFailure ==
    /\ [](\A D \in Unlisted : FailedListingLines(D))
    /\ [][FailureKeepsLines]_vars

\* a subdirectory's listing failed and a later sibling was listed and its
\* file rendered
C4_Witness ==
    /\ ScanOver
    /\ \E D \in Unlisted :
         /\ D # <<>>
         /\ \E S \in DirsToRender(Front(D)) :
              /\ StrLess(Last(D), S)
              /\ Append(Front(D), S) \in Listed
              /\ FilesToRender(Append(Front(D), S)) # {}

FileLinesUnread == {k \in LineIndexes : visit[k].kind = "file" /\ ~visit[k].readable}

\* every entry to render of every listed directory has its line
AllRendered ==
    \A p \in Listed :
      /\ \A n \in FilesToRender(p) :
           \E k \in LineIndexes :
             visit[k].kind = "file" /\ visit[k].dir = p /\ visit[k].name = n
      /\ \A n \in DirsToRender(p) :
           \E k \in LineIndexes : IsDirLineOf(k, Append(p, n))

\* C6: a file that cannot be read yields an empty name and a summary with
\* the error text in it, its tree line carries that text, and the walk
\* renders everything that remains.
C6_ReadFailureInline ==
    /\ \A k \in FileLinesUnread :
         /\ visit[k].class_name = <<>>
         /\ Contains(visit[k].summary, ErrorText)
         /\ Contains(tree_lines[k], ErrorText)
    /\ ScanOver => AllRendered

\* C7: whatever reads and listings fail, the run ends with the document
\* written, and no error leaves scan_directory.
C7_Terminates ==
    /\ <>(pc = "done" /\ document # None)
    /\ [](pc # "crashed")

\* the document is written after a listing and a read have failed
C7_Witness ==
    /\ pc = "done"
    /\ document = Join(Header \o tree_lines
                         \o <<FenceLine, <<>>, TotalLine(tree_lines)>>)
    /\ Unlisted # {}
    /\ FileLinesUnread # {}

\* C8: a file line is prefix + connector + filename alone when the
\* extracted name is empty; it has the arrow exactly when the name is not
\* empty and the parenthesized summary exactly when neither is empty.
C8_FileLine ==
    \A k \in LineIndexes :
      visit[k].kind = "file" =>
        /\ IsEntryLine(k)
        /\ visit[k].class_name = <<>> => LineRest(k) = visit[k].name
        /\ Contains(LineRest(k), <<"U+2190">>) <=> visit[k].class_name # <<>>
        /\ Contains(LineRest(k), <<" ", "(">>)
             <=> (visit[k].class_name # <<>> /\ visit[k].summary # <<>>)
        /\ (visit[k].class_name # <<>> /\ visit[k].summary # <<>>) =>
             LineRest(k) = visit[k].name \o Arrow \o visit[k].class_name
                             \o <<" ", "(">> \o visit[k].summary \o <<")">>

\* a file with a summary and no name, one with a name and no summary and
\* one with both are rendered
C8_Witness ==
    /\ \E k \in LineIndexes :
         /\ visit[k].kind = "file"
         /\ visit[k].class_name = <<>> /\ visit[k].summary # <<>>
    /\ \E k \in LineIndexes :
         /\ visit[k].kind = "file"
         /\ visit[k].class_name # <<>> /\ visit[k].summary = <<>>
    /\ \E k \in LineIndexes :
         /\ visit[k].kind = "file"
         /\ visit[k].class_name # <<>> /\ visit[k].summary # <<>>

\* the prefix of the lines of directory path: one segment for each
\* directory on the path, blank if it was the last subdirectory to render
\* at its level
RECURSIVE PrefixOf(_)
PrefixOf(path) ==
    IF path = <<>> THEN <<>>
    ELSE PrefixOf(Front(path))
           \o (IF IsLastOf(Last(path), DirsToRender(Front(path)))
               THEN BlankSegment ELSE BarSegment)

\* C9: a line at depth d has a prefix of d four-character segments, the
\* k-th blank if the ancestor at depth k was the last subdirectory of its
\* level and the bar marker otherwise; a recursive call gets the caller's
\* prefix extended by one such segment.
C9_Prefix ==
    /\ \A k \in LineIndexes :
         /\ LinePrefix(k) = PrefixOf(visit[k].dir)
         /\ Len(tree_lines[k]) > Len(LinePrefix(k))
         /\ visit[k].kind # "error" => IsEntryLine(k)
    /\ \A j \in 2..Len(stack) :
         /\ stack[j].prefix \in {stack[j - 1].prefix \o BlankSegment,
                                 stack[j - 1].prefix \o BarSegment}
         /\ stack[j].prefix = PrefixOf(stack[j].root_path)
         /\ Len(stack[j].prefix) = Len(stack[j - 1].prefix) + Len(BarSegment)

\* a file two levels down, under a last subdirectory of a subdirectory that
\* is not the last
C9_Witness ==
    \E k \in LineIndexes :
      /\ visit[k].kind = "file"
      /\ visit[k].depth = 2
      /\ LinePrefix(k) = BarSegment \o BlankSegment

\* the paths scan_directory is to be called on: the root and every
\* subdirectory to render of a listed directory
ToScan == {<<>>} \cup UNION {{Append(p, n) : n \in DirsToRender(p)} : p \in Listed}

LinesFor(kind, dir, name) ==
    {k \in LineIndexes :
       visit[k].kind = kind /\ visit[k].dir = dir /\ visit[k].name = name}

\* once scan_directory has returned: one line for each entry to render, one
\* error line for each directory that could not be listed, nothing else
ExactlyTheTree ==
    /\ Len(visit) = Len(tree_lines)
    /\ DOMAIN fs = ToScan
    /\ \A p \in Listed :
         /\ \A n \in FilesToRender(p) : Cardinality(LinesFor("file", p, n)) = 1
         /\ \A n \in DirsToRender(p) : Cardinality(LinesFor("dir", p, n)) = 1
    /\ \A p \in Unlisted : Cardinality(LinesFor("error", p, <<>>)) = 1
    /\ \A k \in LineIndexes :
         \/ /\ visit[k].kind = "file" /\ visit[k].dir \in Listed
            /\ visit[k].name \in FilesToRender(visit[k].dir)
            /\ IsEntryLine(k)
         \/ /\ visit[k].kind = "dir" /\ visit[k].dir \in Listed
            /\ visit[k].name \in DirsToRender(visit[k].dir)
            /\ IsEntryLine(k)
         \/ /\ visit[k].kind = "error" /\ visit[k].dir \in Unlisted
            /\ tree_lines[k] = LinePrefix(k) \o ErrorOpen \o ErrorText \o <<"]">>

AppendOnly ==
    /\ Len(tree_lines') >= Len(tree_lines)
    /\ SubSeq(tree_lines', 1, Len(tree_lines)) = tree_lines

\* C10: when scan_directory has returned, tree_lines holds exactly one
\* entry line for each .cs file and each non-excluded directory reachable
\* from the root through listable, non-excluded directories, one error line
\* for each directory that could not be listed, and nothing else; during
\* the walk lines are only appended.
C10_ExactOutput ==
    /\ [](ScanOver => ExactlyTheTree)
    /\ [][AppendOnly]_vars

\* the walk is over: files and subdirectories rendered, one subdirectory
\* not listable, an entry left out
C10_Witness ==
    /\ ScanOver
    /\ Unlisted # {}
    /\ \E p \in Listed :
         /\ FilesToRender(p) # {}
         /\ DirsToRender(p) # {}
         /\ \E e \in fs[p].entries :
              e.name \notin FilesToRender(p) \cup DirsToRender(p)

\* C5: the name extract_class_info returns is the identifier of the first
\* line that matches the public pattern if there is such a line, and
\* otherwise that of the first line that matches the bare pattern.
C5_PublicFirst ==
    (pc = "extracted" /\ ex_file.readable) =>
      LET lines  == ex_file.lines
          public == {k \in 1..Len(lines) : PublicMatch(lines[k]) # None}
          bare   == {k \in 1..Len(lines) : BareMatch(lines[k]) # None}
          first(S) == CHOOSE k \in S : \A j \in S : k <= j
      IN  /\ public # {} => ex_result[1] = PublicMatch(lines[first(public)])
          /\ (public = {} /\ bare # {}) =>
               ex_result[1] = BareMatch(lines[first(bare)])
          /\ (public = {} /\ bare = {}) => ex_result[1] = <<>>

====
